---- MODULE Spec2Model ----
(***************************************************************************)
(* StockMaster: the client-side submit handlers (sales/purchase order,     *)
(* receipt, transfer, product create/update/delete, warehouse create,      *)
(* order completion, dashboard load) running as concurrent browser         *)
(* sessions against the shared relational store defined by the             *)
(* migrations.  Every store call (one `await supabase...`) is one atomic   *)
(* step; what a handler computes between two awaits belongs to the step    *)
(* that precedes it.                                                        *)
(***************************************************************************)
EXTENDS Integers, Sequences, FiniteSets, TLC

\* ---------------------------------------------------------------- bounds
MaxLines == 2        \* line items in all the forms submitted in one behaviour
MaxLineQty == 2      \* largest quantity typed into a line
MaxInitQty == 2      \* largest on-hand quantity of an initial stock row
MonthParts == 2      \* instants told apart within one calendar month

\* ------------------------------------------------------------ value sets
Sessions == {1, 2}               \* browser tabs of the signed-in owner
NULL == 0                        \* SQL NULL / the empty string of a form field
InitProducts == {1, 2}
InitWarehouses == {1, 2}
Locations == {1}                 \* location ids; NULL is "no location"
Owner == 1                       \* auth.uid() of the signed-in user
OtherUser == 2                   \* another user of the same store

VARIABLES stock, products, warehouses, orders, order_items, receipts,
          receipt_items, transfers, transfer_items, nextId, sess

vars == <<stock, products, warehouses, orders, order_items, receipts,
          receipt_items, transfers, transfer_items, nextId, sess>>

\* ----------------------------------------------------------- pure helpers
Min(a, b) == IF a < b THEN a ELSE b

RECURSIVE SumSeq(_)
SumSeq(q) == IF q = <<>> THEN 0 ELSE Head(q) + SumSeq(Tail(q))

\* sum of quantity over a set of stock rows
RECURSIVE SumQuantity(_)
SumQuantity(S) ==
  IF S = {} THEN 0
  ELSE LET x == CHOOSE y \in S : TRUE IN x.quantity + SumQuantity(S \ {x})

\* every ordering in which the store may return a set of rows
Orderings(S) ==
  {q \in [1..Cardinality(S) -> S] : \A a, b \in DOMAIN q : a # b => q[a] # q[b]}

\* generated column of public.stock
available_quantity(row) == row.quantity - row.reserved_quantity

\* (variant: no line is filtered out)
IsValidItemAlways(item) == TRUE

\* items.filter((item) => item.product_id && item.quantity > 0)
IsValidItem(item) == item.product_id # NULL /\ item.quantity > 0
validItems(items) == SelectSeq(items, IsValidItem)

\* stock.available_quantity || stock.quantity   (0 is falsy in JavaScript)
availableQty(row) ==
  IF available_quantity(row) # 0 THEN available_quantity(row) ELSE row.quantity

\* stockRecords.reduce((sum, stock) => sum + (available_quantity || quantity), 0)
totalAvailable(records) ==
  SumSeq([k \in 1..Len(records) |-> availableQty(records[k])])

\* (variant: the deduction without Math.min)
deductQtyNoMin(remainingQty, row) == remainingQty

\* Math.min(remainingQty, availableQty)
deductQty(remainingQty, row) == Min(remainingQty, availableQty(row))

\* The inner loop between two awaits: from index j on, the first row that is
\* written (remainingQty > 0 and deductQty > 0); 0 when the loop ends first.
NextWrite(records, j, remainingQty) ==
  LET hits == {k \in j..Len(records) : deductQty(remainingQty, records[k]) > 0}
  IN IF remainingQty <= 0 \/ hits = {} THEN 0
     ELSE CHOOSE k \in hits : \A m \in hits : k <= m

\* ------------------------------------------------------------ store rules
\* (variant: the select without its warehouse filter)
StockOfAnyWarehouse(p, w) == {r \in stock : r.product_id = p}

\* select * from stock where product_id = p and warehouse_id = w
StockOf(p, w) == {r \in stock : r.product_id = p /\ r.warehouse_id = w}

\* ... and location_id = l  /  location_id is null
StockAt(p, w, l) == {r \in StockOf(p, w) : r.location_id = l}

\* UNIQUE(product_id, warehouse_id, location_id): NULLs are distinct, so the
\* constraint only rejects a second row with the same non-null location.
UniqueViolation(p, w, l) == l # NULL /\ StockAt(p, w, l) # {}

\* (variant: the update without its .eq("id", ...) filter)
StockUpdateNoFilter(st, rowId, q) == {[r EXCEPT !.quantity = q] : r \in st}

\* update stock set quantity = q where id = rowId   (no row: nothing happens)
StockUpdate(st, rowId, q) ==
  {IF r.id = rowId THEN [r EXCEPT !.quantity = q] ELSE r : r \in st}

NewStockRow(rowId, p, w, l, q) ==
  [id |-> rowId, product_id |-> p, warehouse_id |-> w, location_id |-> l,
   quantity |-> q, reserved_quantity |-> 0]

\* the null a query returns in place of a row
NoRow == NewStockRow(NULL, NULL, NULL, NULL, 0)

\* row-level policy USING (created_by = auth.uid()): the rows a user sees
OwnedBy(rows, user) == {x \in rows : x.created_by = user}

\* order_number TEXT NOT NULL UNIQUE: one index over the rows of all users
OrdersUnique(ords, orderNumber) == \A o \in ords : o.order_number # orderNumber

\* product_id ... REFERENCES public.products(id)
ProductExists(p) == p \in DOMAIN products

\* rows of the three item tables that reference product p (ON DELETE RESTRICT)
ReferencedBy(p) ==
  [orders |-> {x \in order_items : x.product_id = p},
   receipts |-> {x \in receipt_items : x.product_id = p},
   transfers |-> {x \in transfer_items : x.product_id = p}]

\* (variant: only order_items restricts the delete)
IsReferencedByOrders(p) == ReferencedBy(p).orders # {}

IsReferenced(p) ==
  LET ref == ReferencedBy(p)
  IN ref.orders # {} \/ ref.receipts # {} \/ ref.transfers # {}

\* (variant: a catch block that puts the stock back)
CatchStockRollback(st, snap) == snap

\* catch (error) { console.error(...); toast(...) }: the stock stays as the
\* handler left it, whatever it was when the handler started (snap)
CatchStock(st, snap) == st

\* ---------------------------------------------------------- session state
IdleSess ==
  [pc |-> "idle", kind |-> "none", outcome |-> "none", orderType |-> "none",
   warehouseId |-> NULL, toWarehouseId |-> NULL, items |-> <<>>, i |-> 0,
   stockRecords |-> <<>>, j |-> 0, remainingQty |-> 0, existingStock |-> NoRow,
   rowId |-> NULL, product |-> NULL, view |-> NULL, formLen |-> 0,
   user |-> NULL, orderNumber |-> NULL,
   snap |-> {}, dirty |-> FALSE, writes |-> 0, delta |-> 0]

\* the session s moves to record rec; no stock write happens
Step(s, rec) == sess' = [sess EXCEPT ![s] = rec]

\* the session s moves to record rec while writing stock (writes counts its
\* stock writes, delta adds up what they change in the total on-hand
\* quantity); every other running or finished handler has now seen a foreign
\* stock write (dirty)
StepW(s, rec) ==
  sess' = [t \in Sessions |->
             IF t = s
               THEN [rec EXCEPT !.writes = @ + 1,
                                !.delta = @ + SumQuantity(stock') - SumQuantity(stock)]
             ELSE IF sess[t].pc # "idle" THEN [sess[t] EXCEPT !.dirty = TRUE]
             ELSE sess[t]]

Done(rec, out) == [rec EXCEPT !.pc = "done", !.outcome = out]

\* ------------------------------------------------------------------ Init
\* Stock present before the first submission: at most one row per
\* (product, warehouse, location) and 0 <= reserved_quantity <= quantity.
\* Row 1 is product 1 at location 1 of warehouse 1, either one free unit or
\* reserved in full; row 2 (optional) and row 3 are products 1 and 2 in
\* warehouse 1 without a location.  Warehouse 2 starts empty.
InitRow(n, p, l, q, r) ==
  [id |-> n, product_id |-> p, warehouse_id |-> 1, location_id |-> l,
   quantity |-> q, reserved_quantity |-> r]

InitStocks ==
  {{row1, InitRow(3, 2, NULL, MaxInitQty, 0)} \cup opt :
     row1 \in {InitRow(1, 1, 1, 1, 0), InitRow(1, 1, 1, MaxInitQty, MaxInitQty)},
     opt \in {{}, {InitRow(2, 1, NULL, MaxInitQty, 0)}}}

\* an order of another user, placed before; its number is the tail of the
\* clock reading at which that user opened the form
OtherOrder ==
  [id |-> 1, order_number |-> 1, order_type |-> "purchase",
   status |-> "pending", created_by |-> OtherUser]

Init ==
  /\ stock \in InitStocks
  /\ products = [p \in InitProducts |-> [sku |-> p, reorder_level |-> 1]]
  /\ warehouses = InitWarehouses
  /\ orders = {OtherOrder}
  /\ order_items = {}
  /\ receipts = {}
  /\ receipt_items = {}
  /\ transfers = {}
  /\ transfer_items = {}
  /\ nextId = 4
  /\ sess = [s \in Sessions |-> IdleSess]

\* --------------------------------------------------------------- inputs
\* a form line: a product, a quantity (the inputs have min="1") and a
\* location; the line addItem appends, with no product chosen yet, is the
\* one the handlers filter out
Lines(Prods, Locs) ==
  {[product_id |-> p, quantity |-> q, location_id |-> l] :
     p \in Prods, q \in 1..MaxLineQty, l \in Locs}
  \cup {[product_id |-> NULL, quantity |-> 1, location_id |-> NULL]}

OrderLines == Lines(InitProducts, {NULL})
ReceiptLines == Lines({1}, Locations \cup {NULL}) \cup Lines({2}, {NULL})
TransferLines == Lines({1}, {NULL})

\* lines already submitted by the sessions
RECURSIVE LinesUsed(_)
LinesUsed(S) ==
  IF S = {} THEN 0
  ELSE LET t == CHOOSE u \in S : TRUE IN sess[t].formLen + LinesUsed(S \ {t})

\* the forms a session can still submit
Forms(LineSet) ==
  UNION {[1..n -> LineSet] : n \in 1..(MaxLines - LinesUsed(Sessions))}

\* a handler that ends before its first store call
Rejected(kind, out) == [IdleSess EXCEPT !.pc = "done", !.kind = kind, !.outcome = out]

\* a handler that goes on to its store calls, with the stock it started from
Start(kind, items) ==
  [IdleSess EXCEPT !.kind = kind, !.formLen = Len(items), !.snap = stock]

\* the same two for a handler that has the user from getUser
RejectedBy(me, out) == [Rejected(me.kind, out) EXCEPT !.user = me.user]
StartBy(me, items) == [Start(me.kind, items) EXCEPT !.user = me.user]

\* ------------------------------- OrderNew / ReceiptNew / TransferNew
\* (variant: the handlers without their sign-in check)
NotAuthenticatedNever(user) == FALSE

\* if (!user) throw new Error("Not authenticated")
NotAuthenticated(user) == user = NULL

\* const { data: { user } } = await supabase.auth.getUser(), the first await
\* of each of the three submit handlers, and the throw that follows it
getUser(s) ==
  /\ sess[s].pc = "idle"
  /\ \E kind \in {"order", "receipt", "transfer"}, user \in {NULL, Owner} :
       IF NotAuthenticated(user)
         THEN Step(s, Rejected(kind, "unauthenticated"))
         ELSE Step(s, [IdleSess EXCEPT !.pc = "validate", !.kind = kind,
                                       !.user = user])
  /\ UNCHANGED <<stock, products, warehouses, orders, order_items, receipts,
                 receipt_items, transfers, transfer_items, nextId>>

\* ------------------------------------------------ OrderNew.handleSubmit
\* generateOrderNumber: `ORD-${Date.now().toString().slice(-6)}`, the tail
\* of the clock when the form was opened - a number no order has yet, or one
\* that the tail of an earlier clock reading already gave to an order
OrderNumbers == {nextId} \cup {o.order_number : o \in orders}

\* after getUser: the two validations and the insert into orders
OrderSubmit(s) ==
  /\ sess[s].pc = "validate" /\ sess[s].kind = "order"
  /\ \E orderType \in {"purchase", "sales"}, orderNumber \in OrderNumbers,
        warehouseId \in warehouses \cup {NULL}, items \in Forms(OrderLines) :
       LET rec == [StartBy(sess[s], items) EXCEPT !.orderNumber = orderNumber]
       IN IF validItems(items) = <<>>
            THEN Step(s, RejectedBy(sess[s], "invalid")) /\ UNCHANGED <<orders, nextId>>
          ELSE IF orderType = "sales" /\ warehouseId = NULL
            THEN Step(s, RejectedBy(sess[s], "invalid")) /\ UNCHANGED <<orders, nextId>>
          ELSE IF ~OrdersUnique(orders, orderNumber)
            THEN /\ Step(s, [RejectedBy(sess[s], "error") EXCEPT
                               !.orderNumber = orderNumber])
                 /\ UNCHANGED <<orders, nextId>>
          ELSE /\ orders' = orders \cup {[id |-> nextId, order_number |-> orderNumber,
                                          order_type |-> orderType,
                                          status |-> "pending",
                                          created_by |-> sess[s].user]}
               /\ nextId' = nextId + 1
               /\ Step(s, [rec EXCEPT !.pc = "order_items", !.rowId = nextId,
                                      !.orderType = orderType,
                                      !.warehouseId = warehouseId,
                                      !.items = validItems(items)])
  /\ UNCHANGED <<stock, products, warehouses, order_items, receipts,
                 receipt_items, transfers, transfer_items>>

\* (variant: the deduction for every order with a warehouse)
DeductsStockAnyType(orderType, warehouseId) == warehouseId # NULL

\* if (orderType === "sales" && warehouseId)
DeductsStock(orderType, warehouseId) == orderType = "sales" /\ warehouseId # NULL

\* after the last write of line i: the next line, or the success toast (the
\* rows read for the last line stay in stockRecords)
SellNextLine(me) ==
  IF me.i < Len(me.items)
    THEN [me EXCEPT !.pc = "sell_read", !.i = @ + 1, !.stockRecords = <<>>,
                    !.j = 0, !.remainingQty = 0]
    ELSE [Done(me, "success") EXCEPT !.j = 0, !.remainingQty = 0]

\* supabase.from("order_items").insert(validItems.map(...)); then, for a
\* sales order, the loop starts with its first line
OrderItemsInsert(s) ==
  /\ sess[s].pc = "order_items"
  /\ LET me == sess[s]
         ok == \A k \in 1..Len(me.items) : ProductExists(me.items[k].product_id)
     IN IF ~ok
          THEN /\ Step(s, Done(me, "error"))
               /\ UNCHANGED order_items
          ELSE /\ order_items' = order_items \cup
                     {[order_id |-> me.rowId, line |-> k,
                       product_id |-> me.items[k].product_id,
                       quantity |-> me.items[k].quantity] :
                        k \in 1..Len(me.items)}
               /\ IF DeductsStock(me.orderType, me.warehouseId)
                    THEN Step(s, [me EXCEPT !.pc = "sell_read", !.i = 1])
                    ELSE Step(s, Done(me, "success"))
  /\ UNCHANGED <<stock, products, warehouses, orders, receipts, receipt_items,
                 transfers, transfer_items, nextId>>

\* the select of line i, the two throws, and the loop up to its first update
SellRead(s) ==
  /\ sess[s].pc = "sell_read"
  /\ LET me == sess[s]
         item == me.items[me.i]
     IN \E stockRecords \in Orderings(StockOf(item.product_id, me.warehouseId)) :
          IF Len(stockRecords) = 0
            THEN /\ Step(s, Done(me, "no_stock"))
                 /\ stock' = CatchStock(stock, me.snap)
          ELSE IF totalAvailable(stockRecords) < item.quantity
            THEN /\ Step(s, Done(me, "insufficient"))
                 /\ stock' = CatchStock(stock, me.snap)
          ELSE LET k == NextWrite(stockRecords, 1, item.quantity)
                   rec == [me EXCEPT !.stockRecords = stockRecords]
               IN /\ IF k = 0 THEN Step(s, SellNextLine(rec))
                     ELSE Step(s, [rec EXCEPT !.pc = "sell_write", !.j = k,
                                             !.remainingQty = item.quantity])
                  /\ UNCHANGED stock
  /\ UNCHANGED <<products, warehouses, orders, order_items, receipts,
                 receipt_items, transfers, transfer_items, nextId>>

\* (variant: the whole remaining need taken from the row)
SellNewQuantityAllFromRow(row, remainingQty) == row.quantity - remainingQty

\* (variant: the deduction applied to the quantity the store holds now)
SellNewQuantityInPlace(row, remainingQty) ==
  (IF \E r \in stock : r.id = row.id
     THEN (CHOOSE r \in stock : r.id = row.id).quantity
     ELSE row.quantity) - deductQty(remainingQty, row)

\* quantity: Number(stock.quantity) - deductQty
SellNewQuantity(row, remainingQty) == row.quantity - deductQty(remainingQty, row)

\* the inner loop as a function of the rows read: the rows as the loop
\* leaves them when every update is applied to the row it was read from
RECURSIVE SellLoop(_, _, _)
SellLoop(records, j, remainingQty) ==
  LET k == NextWrite(records, j, remainingQty)
  IN IF k = 0 THEN records
     ELSE SellLoop([records EXCEPT
                      ![k].quantity = SellNewQuantity(records[k], remainingQty)],
                   k + 1, remainingQty - deductQty(remainingQty, records[k]))

\* one update of the inner loop, and the loop up to the next await
SellWrite(s) ==
  /\ sess[s].pc = "sell_write"
  /\ LET me == sess[s]
         row == me.stockRecords[me.j]
         left == me.remainingQty - deductQty(me.remainingQty, row)
         k == NextWrite(me.stockRecords, me.j + 1, left)
     IN /\ stock' = StockUpdate(stock, row.id, SellNewQuantity(row, me.remainingQty))
        /\ IF k = 0 THEN StepW(s, SellNextLine([me EXCEPT !.remainingQty = left]))
           ELSE StepW(s, [me EXCEPT !.j = k, !.remainingQty = left])
  /\ UNCHANGED <<products, warehouses, orders, order_items, receipts,
                 receipt_items, transfers, transfer_items, nextId>>

\* --------------------------------------------- ReceiptNew.handleSubmit
\* after getUser: the two validations and the insert into receipts
ReceiptSubmit(s) ==
  /\ sess[s].pc = "validate" /\ sess[s].kind = "receipt"
  /\ \E warehouseId \in warehouses \cup {NULL}, items \in Forms(ReceiptLines) :
       LET rec == StartBy(sess[s], items)
       IN IF warehouseId = NULL
            THEN Step(s, RejectedBy(sess[s], "invalid")) /\ UNCHANGED <<receipts, nextId>>
          ELSE IF validItems(items) = <<>>
            THEN Step(s, RejectedBy(sess[s], "invalid")) /\ UNCHANGED <<receipts, nextId>>
          ELSE /\ receipts' = receipts \cup {[id |-> nextId,
                                              warehouse_id |-> warehouseId,
                                              created_by |-> sess[s].user]}
               /\ nextId' = nextId + 1
               /\ Step(s, [rec EXCEPT !.pc = "receipt_item", !.rowId = nextId,
                                      !.warehouseId = warehouseId,
                                      !.items = validItems(items), !.i = 1])
  /\ UNCHANGED <<stock, products, warehouses, orders, order_items,
                 receipt_items, transfers, transfer_items>>

\* supabase.from("receipt_items").insert({receipt_id, ...item, location_id})
ReceiptItemInsert(s) ==
  /\ sess[s].pc = "receipt_item"
  /\ LET me == sess[s]
         item == me.items[me.i]
     IN IF ~ProductExists(item.product_id)
          THEN /\ Step(s, Done(me, "error"))
               /\ stock' = CatchStock(stock, me.snap)
               /\ UNCHANGED receipt_items
          ELSE /\ UNCHANGED stock
               /\ receipt_items' = receipt_items \cup
                     {[receipt_id |-> me.rowId, line |-> me.i,
                       product_id |-> item.product_id,
                       location_id |-> item.location_id,
                       quantity |-> item.quantity]}
               /\ Step(s, [me EXCEPT !.pc = "receipt_read"])
  /\ UNCHANGED <<products, warehouses, orders, order_items, receipts,
                 transfers, transfer_items, nextId>>

\* stockQuery.maybeSingle(): the row when exactly one matches; with no row,
\* or with several (an error the handler does not look at), data is null
maybeSingle(rows) ==
  IF Cardinality(rows) = 1 THEN CHOOSE r \in rows : TRUE ELSE NoRow

ReceiptRead(s) ==
  /\ sess[s].pc = "receipt_read"
  /\ LET me == sess[s]
         item == me.items[me.i]
     IN Step(s, [me EXCEPT !.pc = "receipt_write",
                           !.existingStock =
                              maybeSingle(StockAt(item.product_id, me.warehouseId,
                                                  item.location_id))])
  /\ UNCHANGED <<stock, products, warehouses, orders, order_items, receipts,
                 receipt_items, transfers, transfer_items, nextId>>

\* (variant: the loop left after its first line)
ReceiptNextLineFirstOnly(me) == [Done(me, "success") EXCEPT !.existingStock = NoRow]

\* after the write of line i: the next line, or the success toast
ReceiptNextLine(me) ==
  IF me.i < Len(me.items)
    THEN [me EXCEPT !.pc = "receipt_item", !.i = @ + 1, !.existingStock = NoRow]
    ELSE [Done(me, "success") EXCEPT !.existingStock = NoRow]

\* (variant: the received quantity written over the quantity on hand)
ReceiptNewQuantityOverwrite(existingStock, item) == item.quantity

\* (variant: a line received onto a row that holds stock is not added)
ReceiptNewQuantityOnce(existingStock, item) ==
  IF existingStock.quantity > 0 THEN existingStock.quantity ELSE item.quantity

\* quantity: Number(existingStock.quantity) + Number(item.quantity)
ReceiptNewQuantity(existingStock, item) == existingStock.quantity + item.quantity

\* insert into stock: rejected by the store (and not noticed by the handler)
\* when the product is gone or the triple with a location already has a row
StockInsert(st, rowId, p, w, l, q) ==
  IF ~ProductExists(p) \/ UniqueViolation(p, w, l) THEN st
  ELSE st \cup {NewStockRow(rowId, p, w, l, q)}

\* the update of the row read, or the insert of a new row
ReceiptWrite(s) ==
  /\ sess[s].pc = "receipt_write"
  /\ LET me == sess[s]
         item == me.items[me.i]
     IN /\ IF me.existingStock # NoRow
             THEN /\ stock' = StockUpdate(stock, me.existingStock.id,
                                  ReceiptNewQuantity(me.existingStock, item))
                  /\ UNCHANGED nextId
             ELSE /\ stock' = StockInsert(stock, nextId, item.product_id,
                                  me.warehouseId, item.location_id, item.quantity)
                  /\ nextId' = nextId + 1
        /\ StepW(s, ReceiptNextLine(me))
  /\ UNCHANGED <<products, warehouses, orders, order_items, receipts,
                 receipt_items, transfers, transfer_items>>

\* ------------------------------------------- TransferNew.handleSubmit
\* (variant: the handler without its same-warehouse validation)
TransferValidationNoSameCheck(user, fromWarehouseId, toWarehouseId, items) ==
  IF NotAuthenticated(user) THEN "unauthenticated"
  ELSE IF fromWarehouseId = NULL \/ toWarehouseId = NULL THEN "invalid"
  ELSE IF validItems(items) = <<>> THEN "invalid"
  ELSE "ok"

\* the user check and the three validations, in the order of the handler
TransferValidation(user, fromWarehouseId, toWarehouseId, items) ==
  IF NotAuthenticated(user) THEN "unauthenticated"
  ELSE IF fromWarehouseId = NULL \/ toWarehouseId = NULL THEN "invalid"
  ELSE IF fromWarehouseId = toWarehouseId THEN "invalid"
  ELSE IF validItems(items) = <<>> THEN "invalid"
  ELSE "ok"

\* CHECK (from_warehouse_id != to_warehouse_id) of public.transfers
TransfersCheck(fromWarehouseId, toWarehouseId) == fromWarehouseId # toWarehouseId

\* after getUser: the validations and the insert into transfers
TransferSubmit(s) ==
  /\ sess[s].pc = "validate" /\ sess[s].kind = "transfer"
  /\ \E fromWarehouseId \in warehouses \cup {NULL},
        toWarehouseId \in warehouses \cup {NULL}, items \in Forms(TransferLines) :
       LET verdict == TransferValidation(sess[s].user, fromWarehouseId,
                                         toWarehouseId, items)
           rec == [StartBy(sess[s], items) EXCEPT
                     !.warehouseId = fromWarehouseId,
                     !.toWarehouseId = toWarehouseId]
       IN IF verdict # "ok"
            THEN /\ Step(s, [RejectedBy(sess[s], verdict) EXCEPT
                               !.warehouseId = fromWarehouseId,
                               !.toWarehouseId = toWarehouseId])
                 /\ UNCHANGED <<transfers, nextId>>
          ELSE IF ~TransfersCheck(fromWarehouseId, toWarehouseId)
            THEN Step(s, Done(rec, "error")) /\ UNCHANGED <<transfers, nextId>>
          ELSE /\ transfers' = transfers \cup
                     {[id |-> nextId, from_warehouse_id |-> fromWarehouseId,
                       to_warehouse_id |-> toWarehouseId, status |-> "pending",
                       created_by |-> sess[s].user]}
               /\ nextId' = nextId + 1
               /\ Step(s, [rec EXCEPT !.pc = "transfer_items", !.rowId = nextId,
                                      !.items = validItems(items)])
  /\ UNCHANGED <<stock, products, warehouses, orders, order_items, receipts,
                 receipt_items, transfer_items>>

\* (variant: the transfer takes the transferred products out of the source)
TransferStockMoved(st, fromWarehouseId, toWarehouseId, items) ==
  {IF r.warehouse_id = fromWarehouseId
        /\ \E k \in 1..Len(items) : items[k].product_id = r.product_id
     THEN [r EXCEPT !.quantity = 0] ELSE r : r \in st}

\* between the insert of the items and the success toast the handler makes
\* no call on the stock table
TransferStock(st, fromWarehouseId, toWarehouseId, items) == st

\* supabase.from("transfer_items").insert(validItems.map(...))
TransferItemsInsert(s) ==
  /\ sess[s].pc = "transfer_items"
  /\ LET me == sess[s]
         ok == \A k \in 1..Len(me.items) : ProductExists(me.items[k].product_id)
     IN IF ~ok
          THEN /\ Step(s, Done(me, "error"))
               /\ UNCHANGED transfer_items
          ELSE /\ transfer_items' = transfer_items \cup
                     {[transfer_id |-> me.rowId, line |-> k,
                       product_id |-> me.items[k].product_id,
                       quantity |-> me.items[k].quantity] :
                        k \in 1..Len(me.items)}
               /\ Step(s, Done(me, "success"))
  /\ stock' = TransferStock(stock, sess[s].warehouseId, sess[s].toWarehouseId,
                            sess[s].items)
  /\ UNCHANGED <<products, warehouses, orders, order_items, receipts,
                 receipt_items, transfers, nextId>>

\* -------------------------------------------- ProductNew.handleSubmit
\* the two validations, getSession and the insert into products (sku UNIQUE;
\* the row-level policy rejects a row without an owner)
ProductSubmit(s) ==
  /\ sess[s].pc = "idle"
  /\ \E user \in BOOLEAN, sku \in {NULL, 1, nextId},
        warehouse_id \in warehouses \cup {NULL}, quantity \in 0..MaxLineQty :
       LET rec == [IdleSess EXCEPT !.kind = "product_new"]
       IN IF sku = NULL \/ warehouse_id = NULL
            THEN Step(s, Rejected("product_new", "invalid")) /\ UNCHANGED <<products, nextId>>
          ELSE IF ~user \/ \E p \in DOMAIN products : products[p].sku = sku
            THEN Step(s, Rejected("product_new", "error")) /\ UNCHANGED <<products, nextId>>
          ELSE /\ products' = [p \in DOMAIN products \cup {nextId} |->
                                 IF p = nextId
                                   THEN [sku |-> sku, reorder_level |-> 0]
                                   ELSE products[p]]
               /\ nextId' = nextId + 1
               /\ IF quantity > 0
                    THEN Step(s, [rec EXCEPT !.pc = "product_stock",
                                            !.product = nextId,
                                            !.warehouseId = warehouse_id,
                                            !.remainingQty = quantity])
                    ELSE Step(s, Done([rec EXCEPT !.product = nextId], "success"))
  /\ UNCHANGED <<stock, warehouses, orders, order_items, receipts,
                 receipt_items, transfers, transfer_items>>

\* the insert of the initial stock row (no location); its error is thrown
ProductStockInsert(s) ==
  /\ sess[s].pc = "product_stock"
  /\ LET me == sess[s]
     IN /\ stock' = StockInsert(stock, nextId, me.product, me.warehouseId, NULL,
                                me.remainingQty)
        /\ IF ProductExists(me.product)
             THEN StepW(s, Done([me EXCEPT !.remainingQty = 0], "success"))
             ELSE Step(s, Done([me EXCEPT !.remainingQty = 0], "error"))
  /\ nextId' = nextId + 1
  /\ UNCHANGED <<products, warehouses, orders, order_items, receipts,
                 receipt_items, transfers, transfer_items>>

\* ------------------------------------------ Products.handleDeleteConfirm
\* the three reference checks (one Promise.all) and the three early returns
DeleteCheck(s) ==
  /\ sess[s].pc = "idle"
  /\ \E productToDelete \in DOMAIN products :
       LET rec == [IdleSess EXCEPT !.kind = "product_delete",
                                  !.product = productToDelete]
           ref == ReferencedBy(productToDelete)
       IN IF ref.orders # {} THEN Step(s, Done(rec, "used_in_orders"))
          ELSE IF ref.receipts # {} THEN Step(s, Done(rec, "used_in_receipts"))
          ELSE IF ref.transfers # {} THEN Step(s, Done(rec, "used_in_transfers"))
          ELSE Step(s, [rec EXCEPT !.pc = "delete_stock"])
  /\ UNCHANGED <<stock, products, warehouses, orders, order_items, receipts,
                 receipt_items, transfers, transfer_items, nextId>>

\* supabase.from("stock").delete().eq("product_id", productToDelete.id)
DeleteStock(s) ==
  /\ sess[s].pc = "delete_stock"
  /\ stock' = {r \in stock : r.product_id # sess[s].product}
  /\ StepW(s, [sess[s] EXCEPT !.pc = "delete_product"])
  /\ UNCHANGED <<products, warehouses, orders, order_items, receipts,
                 receipt_items, transfers, transfer_items, nextId>>

\* supabase.from("products").delete().eq("id", productToDelete.id): refused
\* while an item row references the product (ON DELETE RESTRICT); otherwise
\* the stock rows of the product go with it (ON DELETE CASCADE)
DeleteProduct(s) ==
  /\ sess[s].pc = "delete_product"
  /\ LET me == sess[s]
     IN IF IsReferenced(me.product)
          THEN /\ Step(s, Done(me, "error"))
               /\ UNCHANGED <<products, stock>>
          ELSE /\ products' = [p \in DOMAIN products \ {me.product} |-> products[p]]
               /\ stock' = {r \in stock : r.product_id # me.product}
               /\ StepW(s, Done(me, "success"))
  /\ UNCHANGED <<warehouses, orders, order_items, receipts, receipt_items,
                 transfers, transfer_items, nextId>>

\* ---------------------------------------------- Orders.markAsCompleted
markAsCompleted(s) ==
  /\ sess[s].pc = "idle"
  /\ \E o \in OwnedBy(orders, Owner) :
       /\ orders' = (orders \ {o}) \cup {[o EXCEPT !.status = "completed"]}
       /\ Step(s, Done([IdleSess EXCEPT !.kind = "order_complete",
                                        !.rowId = o.id],
                       "success"))
  /\ UNCHANGED <<stock, products, warehouses, order_items, receipts,
                 receipt_items, transfers, transfer_items, nextId>>

\* -------------------------------------------- Warehouses.handleSubmit
WarehouseSubmit(s) ==
  /\ sess[s].pc = "idle"
  /\ \E user \in BOOLEAN, filled \in BOOLEAN :
       LET rec == [IdleSess EXCEPT !.kind = "warehouse_new"]
       IN IF ~filled
            THEN Step(s, Rejected("warehouse_new", "invalid")) /\ UNCHANGED <<warehouses, nextId>>
          ELSE IF ~user
            THEN Step(s, Rejected("warehouse_new", "unauthenticated")) /\ UNCHANGED <<warehouses, nextId>>
          ELSE /\ warehouses' = warehouses \cup {nextId}
               /\ nextId' = nextId + 1
               /\ Step(s, Done([rec EXCEPT !.rowId = nextId], "success"))
  /\ UNCHANGED <<stock, products, orders, order_items, receipts,
                 receipt_items, transfers, transfer_items>>

\* -------------------------------------------- ProductDetail.handleUpdate
handleUpdate(s) ==
  /\ sess[s].pc = "idle"
  /\ \E id \in DOMAIN products, reorder_level \in {0, 2} :
       /\ products' = [products EXCEPT ![id].reorder_level = reorder_level]
       /\ Step(s, Done([IdleSess EXCEPT !.kind = "product_update",
                                        !.product = id],
                       "success"))
  /\ UNCHANGED <<stock, warehouses, orders, order_items, receipts,
                 receipt_items, transfers, transfer_items, nextId>>

\* ------------------------------------------------- Dashboard.fetchStats
\* if (product && Number(item.quantity) <= Number(product.reorder_level))
\* lowStockCount++, over the stock rows read
lowStockCount(st) ==
  Cardinality({r \in st : /\ ProductExists(r.product_id)
                          /\ r.quantity <= products[r.product_id].reorder_level})

\* totalStockQty += Number(item.quantity) over the stock rows read (the
\* quantities of the model are whole, Math.round leaves them as they are)
fetchStats(s) ==
  /\ sess[s].pc = "idle"
  /\ Step(s, Done([IdleSess EXCEPT !.kind = "dashboard",
                                   !.view = [totalStock |-> SumQuantity(stock),
                                             lowStockItems |-> lowStockCount(stock)]],
                  "success"))
  /\ UNCHANGED <<stock, products, warehouses, orders, order_items, receipts,
                 receipt_items, transfers, transfer_items, nextId>>

\* ------------------------------------------------------------ toasts
\* what the handler shows for the way it ended: the success toast, the
\* toast of a validation or of a reference pre-check, or the toast of its
\* catch block (the thrown message itself goes to console.error only, except
\* in handleDeleteConfirm, which shows error.message)
toast(kind, outcome) ==
  LET caught == outcome \in {"unauthenticated", "error", "no_stock", "insufficient"}
  IN CASE outcome = "invalid" ->
            [title |-> "Error", description |-> "Please ..."]
       [] kind = "order" /\ caught ->
            [title |-> "Error", description |-> "Failed to create order"]
       [] kind = "order" /\ outcome = "success" ->
            [title |-> "Success", description |-> "... order created ..."]
       [] kind = "receipt" /\ caught ->
            [title |-> "Error", description |-> "Failed to create receipt"]
       [] kind = "receipt" /\ outcome = "success" ->
            [title |-> "Success", description |-> "Receipt created and stock updated"]
       [] kind = "transfer" /\ caught ->
            [title |-> "Error", description |-> "Failed to create transfer"]
       [] kind = "transfer" /\ outcome = "success" ->
            [title |-> "Success", description |-> "Transfer created successfully"]
       [] kind = "product_delete" /\ outcome = "used_in_orders" ->
            [title |-> "Cannot Delete Product",
             description |-> "This product is used in orders and cannot be deleted."]
       [] kind = "product_delete" /\ outcome = "used_in_receipts" ->
            [title |-> "Cannot Delete Product",
             description |-> "This product is used in receipts and cannot be deleted."]
       [] kind = "product_delete" /\ outcome = "used_in_transfers" ->
            [title |-> "Cannot Delete Product",
             description |-> "This product is used in transfers and cannot be deleted."]
       [] kind = "product_delete" /\ caught ->
            [title |-> "Error", description |-> "error.message"]
       [] kind = "product_delete" /\ outcome = "success" ->
            [title |-> "Success", description |-> "Product deleted successfully"]
       [] OTHER -> [title |-> "none", description |-> "none"]

\* ===================================================== claim vocabulary
\* the quantities of the lines of a form, and of its lines for product p
LineQuantities(items) == [k \in 1..Len(items) |-> items[k].quantity]
Requested(items, p) ==
  SumSeq([k \in 1..Len(items) |->
            IF items[k].product_id = p THEN items[k].quantity ELSE 0])

RowsOf(st, p, w) == {r \in st : r.product_id = p /\ r.warehouse_id = w}

RECURSIVE SumAvailable(_)
SumAvailable(S) ==
  IF S = {} THEN 0
  ELSE LET x == CHOOSE y \in S : TRUE
       IN available_quantity(x) + SumAvailable(S \ {x})

\* the on-hand quantity the store now holds for the row with this id
QuantityOf(rowId) == (CHOOSE r \in stock : r.id = rowId).quantity

IsSell(me) == me.kind = "order" /\ DeductsStock(me.orderType, me.warehouseId)
Succeeded(me) == me.pc = "done" /\ me.outcome = "success"
Refused(me) == me.pc = "done" /\ me.outcome \in {"insufficient", "no_stock"}

\* ---------------------------------------------------------------- C1
\* C1: a Sell submission that went through without a foreign stock write in
\* between has lowered the available quantity of each (product, selected
\* warehouse) by exactly what its lines requested for that product, and no
\* stock row has a negative quantity.
C1_SellDeductsRequested ==
  \A s \in Sessions :
    LET me == sess[s]
    IN (IsSell(me) /\ Succeeded(me) /\ ~me.dirty) =>
         /\ \A p \in InitProducts :
              SumAvailable(RowsOf(stock, p, me.warehouseId)) =
                SumAvailable(RowsOf(me.snap, p, me.warehouseId))
                  - Requested(me.items, p)
         /\ \A r \in stock : r.quantity >= 0

\* a sale of two lines that wrote at least two rows, alone
C1_Witness ==
  \E s \in Sessions :
    /\ IsSell(sess[s]) /\ Succeeded(sess[s]) /\ ~sess[s].dirty
    /\ Len(sess[s].items) = 2 /\ sess[s].writes >= 2

\* ---------------------------------------------------------------- C2
\* C2: a Sell submission refused for insufficient stock (on whichever line)
\* leaves every stock row with the quantity it had when the submission began.
C2_RefusedSellLeavesStock ==
  \A s \in Sessions :
    LET me == sess[s]
    IN (IsSell(me) /\ Refused(me) /\ ~me.dirty) => stock = me.snap

\* ---------------------------------------------------------------- C3
\* C3: what the stock writes of a successful Receive submission add to the
\* total on-hand quantity equals the sum of the quantities of its valid lines.
C3_ReceiveAddsLineQuantities ==
  \A s \in Sessions :
    LET me == sess[s]
    IN (me.kind = "receipt" /\ Succeeded(me)) =>
         me.delta = SumSeq(LineQuantities(me.items))

\* C3 as amended: the same for a Receive submission during which no other
\* submission writes stock; the total on-hand quantity is then the total at
\* its start plus the sum of its valid lines.
C3_ReceiveAloneAddsLineQuantities ==
  \A s \in Sessions :
    LET me == sess[s]
    IN (me.kind = "receipt" /\ Succeeded(me) /\ ~me.dirty) =>
         /\ me.delta = SumSeq(LineQuantities(me.items))
         /\ SumQuantity(stock) =
              SumQuantity(me.snap) + SumSeq(LineQuantities(me.items))

\* two lines for the same (product, warehouse, location), received alone
C3_Witness ==
  \E s \in Sessions :
    LET me == sess[s]
    IN /\ me.kind = "receipt" /\ Succeeded(me) /\ ~me.dirty
       /\ Len(me.items) = 2 /\ me.writes = 2
       /\ me.items[1].product_id = me.items[2].product_id
       /\ me.items[1].location_id = me.items[2].location_id

\* ---------------------------------------------------------------- C4
\* C4: at most one stock row per (product, warehouse, location), NULL
\* counting as a location.
C4_OneRowPerTriple ==
  \A x, y \in stock :
    (x.product_id = y.product_id /\ x.warehouse_id = y.warehouse_id
       /\ x.location_id = y.location_id) => x.id = y.id

\* ---------------------------------------------------------------- C5
\* the deductions the rule of section 4.1 prescribes, row by row in the
\* order returned: min(remaining, available-or-quantity), nothing once the
\* remaining need is zero
RECURSIVE GreedyDeducts(_, _)
GreedyDeducts(records, need) ==
  IF records = <<>> THEN <<>>
  ELSE LET d == IF need > 0 /\ Min(need, availableQty(Head(records))) > 0
                  THEN Min(need, availableQty(Head(records))) ELSE 0
       IN <<d>> \o GreedyDeducts(Tail(records), need - d)

\* C5: while and after a Sell line is deducted (no foreign stock write), the
\* rows already passed hold quantity-read minus the greedy deduction, the
\* rows not yet reached (and those after the need is met) hold the quantity
\* read, and the deductions add up to the line quantity; rows (5, 3) and a
\* Sell of 6 end as (0, 2).
C5_GreedyInReturnedOrder ==
  /\ \A s \in Sessions :
       LET me == sess[s]
           records == me.stockRecords
           plan == GreedyDeducts(records, me.items[me.i].quantity)
       IN (IsSell(me) /\ ~me.dirty /\ records # <<>>
             /\ (me.pc = "sell_write" \/ Succeeded(me))) =>
            /\ SumSeq(plan) = me.items[me.i].quantity
            /\ \A k \in 1..Len(records) :
                 QuantityOf(records[k].id) =
                   records[k].quantity
                     - (IF me.pc = "sell_write" /\ k >= me.j THEN 0 ELSE plan[k])
  /\ LET done == SellLoop(<<NewStockRow(1, 1, 1, 1, 5),
                            NewStockRow(2, 1, 1, NULL, 3)>>, 1, 6)
     IN done[1].quantity = 0 /\ done[2].quantity = 2

\* a sale that emptied the first row returned and took part of the second
C5_Witness ==
  \E s \in Sessions :
    LET me == sess[s]
    IN /\ IsSell(me) /\ Succeeded(me) /\ ~me.dirty
       /\ Len(me.stockRecords) = 2
       /\ me.stockRecords[1].quantity > 0
       /\ QuantityOf(me.stockRecords[1].id) = 0
       /\ QuantityOf(me.stockRecords[2].id) > 0
       /\ QuantityOf(me.stockRecords[2].id) < me.stockRecords[2].quantity

\* ---------------------------------------------------------------- C6
\* session s takes a step of its handler (dirty is set by the others)
Acts(s) == [sess[s] EXCEPT !.dirty = FALSE] # [sess'[s] EXCEPT !.dirty = FALSE]

\* C6: every stock update stores an absolute quantity computed from the row
\* as the writing submission read it - quantity read minus the deduction for
\* Sell, quantity read plus the line quantity for Receive - whatever the
\* store holds at that moment.
C6_WritesFromOwnRead ==
  [][\A s \in Sessions :
       LET me == sess[s]
       IN /\ (me.pc = "sell_write" /\ Acts(s)) =>
               LET row == me.stockRecords[me.j]
               IN \A r \in stock' :
                    r.id = row.id =>
                      r.quantity =
                        row.quantity - Min(me.remainingQty, availableQty(row))
          /\ (me.pc = "receipt_write" /\ Acts(s) /\ me.existingStock # NoRow) =>
               \A r \in stock' :
                 r.id = me.existingStock.id =>
                   r.quantity =
                     me.existingStock.quantity + me.items[me.i].quantity]_vars

\* a Sell and a Receive of one line each read the same row before either
\* wrote; both report success and the row holds quantity read plus the
\* received quantity: the sale is lost
C6_Witness ==
  \E s, t \in Sessions :
    LET sell == sess[s]
        recv == sess[t]
    IN /\ IsSell(sell) /\ Succeeded(sell) /\ sell.writes = 1
       /\ recv.kind = "receipt" /\ Succeeded(recv) /\ recv.writes = 1
       /\ Len(sell.items) = 1 /\ Len(recv.items) = 1
       /\ sell.snap = recv.snap
       /\ \E r0 \in sell.snap :
            /\ RowsOf(sell.snap, sell.items[1].product_id, sell.warehouseId) = {r0}
            /\ r0.product_id = recv.items[1].product_id
            /\ r0.warehouse_id = recv.warehouseId
            /\ r0.location_id = recv.items[1].location_id
            /\ \E r \in stock :
                 r.id = r0.id /\ r.quantity = r0.quantity + recv.items[1].quantity

\* ---------------------------------------------------------------- C7
\* C7: the step in which a Receive or Sell submission fails changes no stock
\* row, so the writes it made before stay; a Sell refused on line k (no
\* foreign stock write) leaves the total on-hand quantity lowered by the
\* quantities of lines 1..k-1.
C7_NoRollback ==
  /\ [](\A s \in Sessions :
          LET me == sess[s]
          IN (IsSell(me) /\ Refused(me) /\ ~me.dirty) =>
               SumQuantity(stock) =
                 SumQuantity(me.snap)
                   - SumSeq(LineQuantities(SubSeq(me.items, 1, me.i - 1))))
  /\ [][\A s \in Sessions :
          (/\ sess[s].kind \in {"order", "receipt"}
           /\ sess[s].pc # "done"
           /\ sess'[s].pc = "done"
           /\ sess'[s].outcome # "success") => stock' = stock]_vars

\* a Sell refused on its second line after the first line was deducted
C7_Witness ==
  \E s \in Sessions :
    /\ IsSell(sess[s]) /\ Refused(sess[s]) /\ ~sess[s].dirty
    /\ sess[s].i = 2 /\ sess[s].writes >= 1 /\ stock # sess[s].snap

\* a Receive that failed on its second line after the first line was written
C7_WitnessReceive ==
  \E s \in Sessions :
    /\ sess[s].kind = "receipt" /\ sess[s].pc = "done"
    /\ sess[s].outcome = "error" /\ sess[s].i = 2 /\ sess[s].delta > 0

\* ---------------------------------------------------------------- C8
Blocked(me) ==
  /\ me.kind = "product_delete" /\ me.pc = "done"
  /\ me.outcome \in {"used_in_orders", "used_in_receipts", "used_in_transfers",
                     "error"}

\* C8: a product that an order, receipt or transfer item references is never
\* removed: the delete is refused by the reference check or, when the
\* reference appears after the check, by the store, and the product stays;
\* the delete of a product that nothing references succeeds, and after a
\* successful delete neither the product nor a stock row of it exists.
C8_DeleteOnlyUnreferenced ==
  /\ [](/\ \A p \in InitProducts : IsReferenced(p) => p \in DOMAIN products
        /\ \A s \in Sessions :
             LET me == sess[s]
             IN /\ (me.kind = "product_delete" /\ Succeeded(me)) =>
                     /\ me.product \notin DOMAIN products
                     /\ \A r \in stock : r.product_id # me.product
                /\ Blocked(me) => me.product \in DOMAIN products)
  /\ [][\A s \in Sessions :
          LET me == sess[s]
              after == sess'[s]
          IN /\ (me.pc = "idle" /\ after.kind = "product_delete"
                   /\ IsReferenced(after.product)) =>
                  (Blocked(after) /\ products' = products /\ stock' = stock)
             /\ (me.pc = "delete_product" /\ after.pc = "done") =>
                  IF ReferencedBy(me.product).orders # {}
                       \/ ReferencedBy(me.product).receipts # {}
                       \/ ReferencedBy(me.product).transfers # {}
                    THEN after.outcome = "error" /\ products' = products
                    ELSE after.outcome = "success"]_vars

\* the delete of a product with a stock row, refused because an item of a
\* finished order, receipt or transfer references the product
C8_Witness ==
  \E s \in Sessions :
    /\ Blocked(sess[s])
    /\ IsReferenced(sess[s].product)
    /\ \E r \in stock : r.product_id = sess[s].product

\* the delete of an unreferenced product went through
C8_WitnessDeleted ==
  \E s \in Sessions : sess[s].kind = "product_delete" /\ Succeeded(sess[s])

\* ---------------------------------------------------------------- C9
\* C9: a Transfer submission with the same source and destination warehouse
\* ends in the handler's validation (or at the sign-in check) with no
\* transfer row of its own; the step inserts no transfer and no transfer
\* item, and no transfer row ever has equal warehouses.
C9_SameWarehouseRejected ==
  /\ [](/\ \A s \in Sessions :
             LET me == sess[s]
             IN (me.kind = "transfer" /\ me.warehouseId # NULL
                   /\ me.warehouseId = me.toWarehouseId) =>
                  /\ me.pc = "done"
                  /\ me.outcome \in {"invalid", "unauthenticated"}
                  /\ me.rowId = NULL
        /\ \A x \in transfers : x.from_warehouse_id # x.to_warehouse_id)
  /\ [][\A s \in Sessions :
          (sess[s].pc = "validate" /\ sess[s].kind = "transfer" /\ Acts(s)
             /\ sess'[s].warehouseId = sess'[s].toWarehouseId) =>
            (transfers' = transfers /\ transfer_items' = transfer_items)]_vars

\* a signed-in Transfer from a warehouse to itself, turned down
C9_Witness ==
  \E s \in Sessions :
    /\ sess[s].kind = "transfer" /\ sess[s].outcome = "invalid"
    /\ sess[s].warehouseId # NULL
    /\ sess[s].warehouseId = sess[s].toWarehouseId

\* --------------------------------------------------------------- C10
NoStockHandler(me) ==
  \/ me.kind \in {"order_complete", "warehouse_new", "product_update",
                  "dashboard"}
  \/ me.kind = "order" /\ me.orderType = "purchase"

\* C10: no step of a purchase order, of marking an order completed, of a
\* warehouse creation, of a product update or of the dashboard load changes
\* the stock table.
C10_OnlyReceiveAndSellMoveStock ==
  [][\A s \in Sessions :
       (Acts(s) /\ NoStockHandler(sess'[s])) => stock' = stock]_vars

\* a purchase order with a warehouse chosen went through, and was then
\* marked completed by the other session
C10_Witness ==
  \E s, t \in Sessions :
    /\ sess[s].kind = "order" /\ sess[s].orderType = "purchase"
    /\ Succeeded(sess[s]) /\ sess[s].warehouseId # NULL
    /\ sess[t].kind = "order_complete" /\ Succeeded(sess[t])
    /\ sess[t].rowId = sess[s].rowId

\* --------------------------------------------------------------- C11
\* C11: a Transfer submission changes nothing but the transfers table (one
\* row, in its first step) and the transfer_items table (one row per valid
\* line of that transfer, in its second step); the stock table in particular
\* stays as it is, in the source and in the destination warehouse.
C11_TransferOnlyRecords ==
  [][\A s \in Sessions :
       LET me == sess[s]
           after == sess'[s]
       IN (Acts(s) /\ after.kind = "transfer") =>
            /\ stock' = stock
            /\ UNCHANGED <<products, warehouses, orders, order_items, receipts,
                           receipt_items>>
            /\ (me.pc = "validate" /\ after.pc = "transfer_items") =>
                 /\ transfers' =
                      transfers \cup
                        {[id |-> after.rowId,
                          from_warehouse_id |-> after.warehouseId,
                          to_warehouse_id |-> after.toWarehouseId,
                          status |-> "pending", created_by |-> after.user]}
                 /\ Cardinality(transfers') = Cardinality(transfers) + 1
                 /\ transfer_items' = transfer_items
            /\ (me.pc = "transfer_items" /\ after.outcome = "success") =>
                 /\ transfers' = transfers
                 /\ transfer_items' \ transfer_items =
                      {[transfer_id |-> me.rowId, line |-> k,
                        product_id |-> me.items[k].product_id,
                        quantity |-> me.items[k].quantity] :
                         k \in 1..Len(me.items)}
                 /\ Cardinality(transfer_items') =
                      Cardinality(transfer_items) + Len(me.items)]_vars

\* a transfer of a product out of a warehouse that holds stock of it went
\* through, and the stock is what it was when the transfer began
C11_Witness ==
  \E s \in Sessions :
    LET me == sess[s]
    IN /\ me.kind = "transfer" /\ Succeeded(me) /\ ~me.dirty
       /\ \E r \in stock :
            /\ r.warehouse_id = me.warehouseId /\ r.quantity > 0
            /\ r.product_id = me.items[1].product_id
       /\ \E x \in transfers : x.id = me.rowId
       /\ stock = me.snap

\* --------------------------------------------------------------- C12
\* C12: a Receive step whose store call fails - the stock insert refused by
\* the store (unique violation, missing product), the stock lookup answered
\* with the several-rows error - ends the submission with the error outcome.
C12_StoreErrorsAbort ==
  [][\A s \in Sessions :
       LET me == sess[s]
           item == me.items[me.i]
           aborted == sess'[s].pc = "done" /\ sess'[s].outcome = "error"
       IN /\ (/\ me.pc = "receipt_write" /\ Acts(s)
               /\ me.existingStock = NoRow
               /\ \/ ~ProductExists(item.product_id)
                  \/ UniqueViolation(item.product_id, me.warehouseId,
                                     item.location_id)) => aborted
          /\ (/\ me.pc = "receipt_read" /\ Acts(s)
               /\ Cardinality(StockAt(item.product_id, me.warehouseId,
                                      item.location_id)) > 1) => aborted]_vars

\* --------------------------------------------------------------- C13
IsForm(me) == me.kind \in {"order", "receipt", "transfer"}

Tables ==
  <<stock, products, warehouses, orders, order_items, receipts, receipt_items,
    transfers, transfer_items, nextId>>

ReceiptLinesStored(me) ==
  {x.line : x \in {y \in receipt_items : y.receipt_id = me.rowId}}

\* C14: the lines of a Receive or Sell submission are taken one at a time in
\* list order.  The line index only moves by one, and only in the step in
\* which the last call of the current line returns; a Receive has stored the
\* receipt_items of exactly the lines 1..i (1..i-1 before the insert of line
\* i) and made one stock write per line passed; a Sell (no foreign stock
\* write) has taken lines 1..i-1 in full and, of line i, what is not
\* remaining; a submission that reports success has passed every line.
C14_LinesInListOrder ==
  /\ [](\A s \in Sessions :
          LET me == sess[s]
              before == SumSeq(LineQuantities(SubSeq(me.items, 1, me.i - 1)))
          IN /\ (me.kind = "receipt" /\ me.rowId # NULL) =>
                  /\ me.i \in 1..Len(me.items)
                  /\ ReceiptLinesStored(me) =
                       1..(IF me.pc = "receipt_item" \/ (me.pc = "done" /\ ~Succeeded(me))
                             THEN me.i - 1 ELSE me.i)
                  /\ me.writes = (IF Succeeded(me) THEN me.i ELSE me.i - 1)
                  /\ Succeeded(me) => me.i = Len(me.items)
             /\ (IsSell(me) /\ me.i >= 1 /\ ~me.dirty) =>
                  /\ me.i \in 1..Len(me.items)
                  /\ me.pc = "sell_read" => me.delta = 0 - before
                  /\ me.pc = "sell_write" =>
                       me.delta = 0 - before
                                    - (me.items[me.i].quantity - me.remainingQty)
                  /\ Succeeded(me) =>
                       /\ me.i = Len(me.items)
                       /\ me.delta = 0 - SumSeq(LineQuantities(me.items)))
  /\ [][\A s \in Sessions :
          LET me == sess[s]
              after == sess'[s]
          IN (me.kind \in {"order", "receipt"} /\ me.i >= 1 /\ after.i # me.i) =>
               /\ after.i = me.i + 1
               /\ me.pc \in {"sell_write", "receipt_write"}
               /\ after.pc \in {"sell_read", "receipt_item"}
               /\ me.pc = "sell_write" =>
                    me.remainingQty = deductQty(me.remainingQty,
                                                me.stockRecords[me.j])]_vars

\* a Receive of two lines, done with both
C14_Witness ==
  \E s \in Sessions :
    LET me == sess[s]
    IN /\ me.kind = "receipt" /\ Succeeded(me)
       /\ Len(me.items) = 2 /\ me.i = 2
       /\ ReceiptLinesStored(me) = {1, 2}

\* --------------------------------------------------------------- C15
\* C15: a Receive, Order or Transfer submission without a signed-in user
\* ends at once with the handler's error toast, owns no row and has written
\* nothing; the step changes no table, and no order, receipt or transfer
\* row is without an owner.
C15_UnauthenticatedWritesNothing ==
  /\ [](/\ \A s \in Sessions :
             LET me == sess[s]
             IN (IsForm(me) /\ me.user = NULL) =>
                  /\ me.pc = "done" /\ me.outcome = "unauthenticated"
                  /\ toast(me.kind, me.outcome).title = "Error"
                  /\ me.rowId = NULL /\ me.writes = 0 /\ me.formLen = 0
        /\ \A x \in orders \cup receipts \cup transfers : x.created_by # NULL)
  /\ [][\A s \in Sessions :
          (sess[s].pc = "idle" /\ IsForm(sess'[s]) /\ sess'[s].user = NULL) =>
            UNCHANGED Tables]_vars

\* one session's order and the other's receipt, both without a user
C15_Witness ==
  \E s, t \in Sessions :
    /\ sess[s].kind = "order" /\ sess[s].outcome = "unauthenticated"
    /\ sess[t].kind = "receipt" /\ sess[t].outcome = "unauthenticated"

\* --------------------------------------------------------------- C16
\* C16: the toast of a Sell refused for insufficient stock, and the toast of
\* a product delete blocked by the reference check, differ from the toast
\* the same handler shows for any other failure.
C16_SpecificErrorShown ==
  \A s \in Sessions :
    LET me == sess[s]
    IN /\ (IsSell(me) /\ me.outcome = "insufficient") =>
            toast(me.kind, me.outcome) # toast(me.kind, "error")
       /\ (me.kind = "product_delete"
             /\ me.outcome \in {"used_in_orders", "used_in_receipts",
                                "used_in_transfers"}) =>
            toast(me.kind, me.outcome) # toast(me.kind, "error")

\* --------------------------------------------------------------- C17
\* C17: whether the order insert of a user is accepted is decided by the
\* rows that user owns (a refusal means one of the user's own orders has the
\* number), and the rows of another user stay as they are.
C17_OwnerIsolation ==
  /\ [](OtherOrder \in orders)
  /\ [][\A s \in Sessions :
          LET me == sess[s]
              after == sess'[s]
          IN (me.pc = "validate" /\ me.kind = "order" /\ Acts(s)) =>
               ((after.outcome = "error")
                  = ~OrdersUnique(OwnedBy(orders, me.user), after.orderNumber))]_vars

\* ------------------------------------------- Analytics.fetchSalesTrend
\* An instant is a calendar month (counted from some January) and a part of
\* that month; MonthParts parts of a month are told apart.
Gte(a, b) == a.month > b.month \/ (a.month = b.month /\ a.part >= b.part)

\* sixMonthsAgo = new Date(); sixMonthsAgo.setMonth(getMonth() - 6): the
\* same day and time of day, six months back
sixMonthsAgo(now) == [now EXCEPT !.month = @ - 6]

\* `${date.getFullYear()}-${String(date.getMonth() + 1).padStart(2, '0')}`
monthKey(date) == date.month

\* new Date(month + '-01') is midnight UTC of the first of the month;
\* toLocaleDateString prints it in the zone of the browser, where it is
\* still the last day of the month before when the zone is west of UTC
\* (tz < 0)
monthLabel(month, tz) == IF tz < 0 THEN month - 1 ELSE month

\* Math.round of an amount kept in hundredths
round(amount) == (amount + 50) \div 100

\* .from("orders").select("id, order_date, order_items(quantity, unit_price)")
\* .eq("order_type", "sales").gte("order_date", sixMonthsAgo.toISOString()),
\* under the row-level policy created_by = auth.uid()
salesOrders(user, now) ==
  {o \in OwnedBy(orders, user) :
     o.order_type = "sales" /\ Gte(o.order_date, sixMonthsAgo(now))}

\* the embedded order_items of the orders ords
itemsOf(ords) == {it \in order_items : \E o \in ords : it.order_id = o.id}

\* revenue += Number(item.quantity) * Number(item.unit_price), in hundredths
RECURSIVE revenue(_)
revenue(S) ==
  IF S = {} THEN 0
  ELSE LET it == CHOOSE x \in S : TRUE
       IN it.quantity * it.unit_price + revenue(S \ {it})

\* monthlyData[monthKey] = { revenue, orders } after the forEach
monthlyData(ords) ==
  [month \in {monthKey(o.order_date) : o \in ords} |->
     LET inMonth == {o \in ords : monthKey(o.order_date) = month}
     IN [revenue |-> revenue(itemsOf(inMonth)), orders |-> Cardinality(inMonth)]]

\* Object.entries(monthlyData).map(...): the entries of the trend, before
\* they are sorted
trendEntries(ords, tz) ==
  LET data == monthlyData(ords)
  IN {[month |-> monthLabel(month, tz), revenue |-> round(data[month].revenue),
       orders |-> data[month].orders] : month \in DOMAIN data}

\* The label of a month is its short English name and its year ("Jan 2026").
\* Months are counted from a January: the name is the place in the year,
\* the year the number of Decembers passed.
monthOfYear(month) == ((month + 11) % 12) + 1
yearOf(month) == (month + 11) \div 12

\* the place of each name among the twelve in alphabetical order: Apr, Aug,
\* Dec, Feb, Jan, Jul, Jun, Mar, May, Nov, Oct, Sep
Alphabetical == <<5, 4, 8, 1, 9, 7, 6, 2, 12, 11, 10, 3>>

\* a.month.localeCompare(b.month) < 0: the labels are compared as text, the
\* name first and the year after it
localeCompare(a, b) ==
  \/ Alphabetical[monthOfYear(a)] < Alphabetical[monthOfYear(b)]
  \/ (monthOfYear(a) = monthOfYear(b) /\ yearOf(a) < yearOf(b))

\* const trend = Object.entries(monthlyData).map(...).sort((a, b) =>
\* a.month.localeCompare(b.month)); no two entries have the same label
trend(ords, tz) ==
  LET entries == trendEntries(ords, tz)
  IN [n \in 1..Cardinality(entries) |->
        CHOOSE e \in entries :
          Cardinality({f \in entries : localeCompare(f.month, e.month)}) = n - 1]

\* the zone of the browser: west of UTC, UTC, east of UTC
TimeZones == {-1, 0, 1}

\* the clock readings at which the page is loaded: parts of month 7
Clock == {[month |-> 7, part |-> p] : p \in 1..MonthParts}

\* the page load: one select, then setSalesTrend(trend), or setSalesTrend([])
\* from the catch block when the select fails
fetchSalesTrend(s) ==
  /\ sess[s].pc = "idle"
  /\ \E now \in Clock, tz \in TimeZones, failed \in BOOLEAN :
       Step(s, IF failed
                 THEN Done([IdleSess EXCEPT !.kind = "trend", !.user = Owner,
                                            !.view = <<>>], "error")
                 ELSE Done([IdleSess EXCEPT !.kind = "trend", !.user = Owner,
                                            !.view = trend(salesOrders(Owner, now), tz)],
                           "success"))
  /\ UNCHANGED <<stock, products, warehouses, orders, order_items, receipts,
                 receipt_items, transfers, transfer_items, nextId>>

\* The orders on file when the page is loaded: two orders, each a purchase
\* or a sale of the owner or of another user, dated in month 1 (six months
\* before the load) or month 2; the first has two line items, the second one.
TrendDates == {[month |-> m, part |-> p] : m \in {1, 2}, p \in 1..MonthParts}

TrendOrders(n) ==
  {[id |-> n, order_number |-> n, order_type |-> t, status |-> "completed",
    created_by |-> u, order_date |-> d] :
     t \in {"sales", "purchase"}, u \in {Owner, OtherUser}, d \in TrendDates}

\* unit prices in hundredths: 0.50, 100.00, 250.00
Prices == {50, 10000, 25000}

TrendItem(n, o, q, price) ==
  [id |-> n, order_id |-> o, product_id |-> 1, quantity |-> q, unit_price |-> price]

InitTrend ==
  /\ stock = {}
  /\ products = [p \in InitProducts |-> [sku |-> p, reorder_level |-> 1]]
  /\ warehouses = InitWarehouses
  /\ \E o1 \in TrendOrders(1), o2 \in TrendOrders(2) : orders = {o1, o2}
  /\ \E p2 \in Prices, q3 \in 1..MaxLineQty, p3 \in Prices :
       order_items = {TrendItem(1, 1, 1, 10000), TrendItem(2, 1, 1, p2),
                      TrendItem(3, 2, q3, p3)}
  /\ receipts = {}
  /\ receipt_items = {}
  /\ transfers = {}
  /\ transfer_items = {}
  /\ nextId = 4
  /\ sess = [s \in Sessions |-> IdleSess]

NextTrend == \E s \in Sessions : fetchSalesTrend(s)

SpecTrend == InitTrend /\ [][NextTrend]_vars

\* --------------------------------------------------------------- C18
\* C18: every entry of a loaded sales trend carries, for its month, the
\* rounded sum of quantity * unit_price over all line items of the user's
\* sales orders dated in that month, and the number of those orders.
OwnSalesIn(user, month) ==
  {o \in OwnedBy(orders, user) :
     o.order_type = "sales" /\ monthKey(o.order_date) = month}

C18_TrendEntryIsMonthTotal ==
  \A s \in Sessions :
    LET me == sess[s]
    IN (me.kind = "trend" /\ Succeeded(me)) =>
         \A k \in DOMAIN me.view :
           LET e == me.view[k]
           IN /\ e.revenue = round(revenue(itemsOf(OwnSalesIn(me.user, e.month))))
              /\ e.orders = Cardinality(OwnSalesIn(me.user, e.month))

\* --------------------------------------------------------------- C19
\* C19: the stock write of a Receive line changes exactly the row matching
\* (line product, selected warehouse, line location or NULL): when there is
\* one, its quantity grows by the line quantity and nothing else changes;
\* when there is none, one row with the line quantity and reserved_quantity
\* 0 is added and nothing else changes.
C19_ReceiveLineAffectsOneRow ==
  [][\A s \in Sessions :
       LET me == sess[s]
           item == me.items[me.i]
           matching == StockAt(item.product_id, me.warehouseId, item.location_id)
       IN (me.kind = "receipt" /\ me.pc = "receipt_write" /\ Acts(s)) =>
            IF matching # {}
              THEN \E r \in matching :
                     stock' = (stock \ {r})
                                \cup {[r EXCEPT !.quantity = @ + item.quantity]}
              ELSE stock' = stock \cup {NewStockRow(nextId, item.product_id,
                                                    me.warehouseId, item.location_id,
                                                    item.quantity)}]_vars

\* --------------------------------------------------------------- C20
\* C20: the total available a Sell line computes from the rows it fetched
\* is the sum of their available_quantity (the column is generated, so it is
\* always present); a fully reserved row contributes 0.
C20_TotalIsSumOfAvailable ==
  \A s \in Sessions :
    LET me == sess[s]
        records == me.stockRecords
    IN (IsSell(me) /\ records # <<>>) =>
         totalAvailable(records)
           = SumSeq([k \in 1..Len(records) |-> available_quantity(records[k])])

\* --------------------------------------------------------------- C21
LineProducts(items) == {items[k].product_id : k \in 1..Len(items)}

\* C21: the rows a Sell submission has read, and the rows whose quantity a
\* step of it changes, are rows of the selected warehouse for one of its
\* line products; no step of it adds or removes a stock row or changes
\* anything of a row but its quantity.
C21_SellTouchesOwnRowsOnly ==
  /\ [](\A s \in Sessions :
          LET me == sess[s]
          IN IsSell(me) =>
               \A k \in 1..Len(me.stockRecords) :
                 /\ me.stockRecords[k].warehouse_id = me.warehouseId
                 /\ me.stockRecords[k].product_id \in LineProducts(me.items))
  /\ [][\A s \in Sessions :
          LET me == sess[s]
          IN (IsSell(me) /\ Acts(s)) =>
               /\ {r.id : r \in stock'} = {r.id : r \in stock}
               /\ \A r \in stock :
                    \/ r \in stock'
                    \/ /\ [r EXCEPT !.quantity = QuantityOf(r.id)'] \in stock'
                       /\ r.warehouse_id = me.warehouseId
                       /\ r.product_id \in LineProducts(me.items)]_vars

\* a Sell that deducted and succeeded while rows of another product, and of
\* the same product elsewhere, are on file
C21_Witness ==
  \E s \in Sessions :
    LET me == sess[s]
    IN /\ IsSell(me) /\ Succeeded(me) /\ me.writes >= 1
       /\ \E r \in stock : r.product_id \notin LineProducts(me.items)
       /\ \E r \in stock : /\ r.product_id \in LineProducts(me.items)
                           /\ r.warehouse_id # me.warehouseId

\* --------------------------------------------------------------- C22
\* the stock select of a Receive line on the stock st, through maybeSingle
ReceiptExisting(st, warehouseId, item) ==
  maybeSingle({r \in st : /\ r.product_id = item.product_id
                          /\ r.warehouse_id = warehouseId
                          /\ r.location_id = item.location_id})

\* the stock write of a Receive line on the stock st: the update of the row
\* read, or the insert (refused for a second row with the same non-null
\* location)
ReceiptWritten(st, existingStock, warehouseId, item, rowId) ==
  IF existingStock # NoRow
    THEN StockUpdate(st, existingStock.id, ReceiptNewQuantity(existingStock, item))
  ELSE IF /\ item.location_id # NULL
          /\ \E r \in st : /\ r.product_id = item.product_id
                           /\ r.warehouse_id = warehouseId
                           /\ r.location_id = item.location_id
    THEN st
  ELSE st \cup {NewStockRow(rowId, item.product_id, warehouseId,
                            item.location_id, item.quantity)}

\* the loop of ReceiptNew.handleSubmit as a function of the stock st it
\* starts from, when nothing else writes stock meanwhile
RECURSIVE ReceiptLoop(_, _, _, _, _)
ReceiptLoop(st, warehouseId, items, k, rowId) ==
  IF k > Len(items) THEN st
  ELSE ReceiptLoop(ReceiptWritten(st, ReceiptExisting(st, warehouseId, items[k]),
                                  warehouseId, items[k], rowId),
                   warehouseId, items, k + 1, rowId + 1)

\* a stock row without its id
UnnumberedRow(r) ==
  [product_id |-> r.product_id, warehouse_id |-> r.warehouse_id,
   location_id |-> r.location_id, quantity |-> r.quantity,
   reserved_quantity |-> r.reserved_quantity]

\* the stock rows without their ids, each with the number of its copies
Unnumbered(st) ==
  {[row |-> UnnumberedRow(r),
    copies |-> Cardinality({x \in st : UnnumberedRow(x) = UnnumberedRow(r)})] :
     r \in st}

\* every order of the lines items
Permuted(items) ==
  {[k \in 1..Len(items) |-> items[q[k]]] : q \in Orderings(1..Len(items))}

\* the loop agrees with the handler: after a successful Receive during
\* which no other submission wrote stock, the stock is what the loop yields
\* from the stock at its start
ReceiptLoopIsHandler ==
  \A s \in Sessions :
    LET me == sess[s]
    IN (me.kind = "receipt" /\ Succeeded(me) /\ ~me.dirty) =>
         Unnumbered(ReceiptLoop(me.snap, me.warehouseId, me.items, 1, nextId))
           = Unnumbered(stock)

\* the awaits of the loop, in order: for each line the select, then the write
ReceiptSteps(who, items) ==
  [k \in 1..(2 * Len(items)) |->
     [who |-> who, op |-> IF k % 2 = 1 THEN "read" ELSE "write",
      line |-> (k + 1) \div 2]]

\* the steps of one handler (own) with the select and the write of a
\* one-line handler (other) placed after a and after b of them, up to the
\* last step of own
Interleaved(own, other, a, b) ==
  SubSeq(own, 1, a) \o <<other[1]>> \o SubSeq(own, a + 1, b)
    \o (IF b < Len(own) THEN <<other[2]>> \o SubSeq(own, b + 1, Len(own))
        ELSE <<>>)

\* the stock after the steps from k on, run one after the other on st;
\* existing[who] is the row the handler who read last
RECURSIVE ReplaySteps(_, _, _, _, _, _, _)
ReplaySteps(steps, k, st, forms, warehouseId, existing, rowId) ==
  IF k > Len(steps) THEN st
  ELSE LET who == steps[k].who
           item == forms[who][steps[k].line]
       IN IF steps[k].op = "read"
            THEN ReplaySteps(steps, k + 1, st, forms, warehouseId,
                             [existing EXCEPT
                                ![who] = ReceiptExisting(st, warehouseId, item)],
                             rowId)
            ELSE ReplaySteps(steps, k + 1,
                             ReceiptWritten(st, existing[who], warehouseId, item, rowId),
                             forms, warehouseId, existing, rowId + 1)

\* the stock when the Receive with the lines items ends, the one-line
\* Receive of the other tab interleaved with it as the schedule says
ReceiptResult(st, warehouseId, items, otherItems, schedule) ==
  ReplaySteps(Interleaved(ReceiptSteps(1, items), ReceiptSteps(2, otherItems),
                          schedule[1], schedule[2]),
              1, st, <<items, otherItems>>, warehouseId, <<NoRow, NoRow>>, nextId)

\* where the select and the write of the other tab fall among the steps of
\* a Receive of n lines
Schedules(n) == {q \in (0..(2 * n)) \X (0..(2 * n)) : q[1] <= q[2]}

\* a line that passes the validation of the form
ValidReceiptLines == {item \in ReceiptLines : IsValidItem(item)}

\* Two Receive forms for one warehouse, submitted in two tabs and past
\* their inserts into receipts and receipt_items: one of MaxLines lines, one
\* of a single line, and the places of the second one's two stock calls.
InitPermute ==
  /\ stock \in InitStocks
  /\ products = [p \in InitProducts |-> [sku |-> p, reorder_level |-> 1]]
  /\ warehouses = InitWarehouses
  /\ orders = {}
  /\ order_items = {}
  /\ receipts = {}
  /\ receipt_items = {}
  /\ transfers = {}
  /\ transfer_items = {}
  /\ nextId = 4
  /\ \E w \in InitWarehouses, items \in [1..MaxLines -> ValidReceiptLines],
        other \in ValidReceiptLines, schedule \in Schedules(MaxLines) :
       sess = [s \in Sessions |->
                 [IdleSess EXCEPT !.pc = "receipt_read", !.kind = "receipt",
                                  !.user = Owner, !.warehouseId = w,
                                  !.items = IF s = 1 THEN items ELSE <<other>>,
                                  !.formLen = IF s = 1 THEN Len(items) ELSE 1,
                                  !.i = 1, !.snap = stock,
                                  !.view = IF s = 1 THEN {} ELSE schedule]]

\* the two handlers run to the end of the first: stock is what the lines
\* give in the order typed, view what they give in each of their orders
ReplayReceipts ==
  /\ sess[1].pc = "receipt_read"
  /\ stock' = ReceiptResult(stock, sess[1].warehouseId, sess[1].items,
                            sess[2].items, sess[2].view)
  /\ sess' = [sess EXCEPT
                ![1] = [Done(sess[1], "success") EXCEPT
                          !.view = {Unnumbered(ReceiptResult(stock, sess[1].warehouseId,
                                                 items, sess[2].items, sess[2].view)) :
                                      items \in Permuted(sess[1].items)}]]
  /\ UNCHANGED <<products, warehouses, orders, order_items, receipts,
                 receipt_items, transfers, transfer_items, nextId>>

NextPermute == ReplayReceipts

SpecPermute == InitPermute /\ [][NextPermute]_vars

\* the write of the other tab falls among the steps of the first
WrittenMeanwhile(schedule, items) == 0 < schedule[2] /\ schedule[2] < 2 * Len(items)

\* C22 as claimed: when a Receive submission has ended with success, the
\* stock rows and quantities are the same for every order of its lines.
C22_ReceiveOrderIndependent ==
  Succeeded(sess[1]) => sess[1].view = {Unnumbered(stock)}

\* C22 as amended: the same for a Receive during which no other submission
\* writes stock.
C22_ReceiveAloneOrderIndependent ==
  (Succeeded(sess[1]) /\ ~WrittenMeanwhile(sess[2].view, sess[1].items)) =>
    sess[1].view = {Unnumbered(stock)}

\* a Receive alone of two different lines for the same (product, warehouse,
\* location) with no row yet: the first inserts the row, the second updates
\* it
C22_Witness ==
  LET me == sess[1]
  IN /\ Succeeded(me) /\ ~WrittenMeanwhile(sess[2].view, me.items)
     /\ me.items[1].product_id = me.items[2].product_id
     /\ me.items[1].location_id = me.items[2].location_id
     /\ me.items[1].quantity # me.items[2].quantity
     /\ StockAt(me.items[1].product_id, me.warehouseId, me.items[1].location_id)
          \cap me.snap = {}
     /\ Cardinality(StockAt(me.items[1].product_id, me.warehouseId,
                            me.items[1].location_id)) = 1

\* ----------------- Analytics.fetchBestSellingProducts / fetchCategorySales
TopProducts == 10      \* .slice(0, 10)
TopCategories == 6     \* .slice(0, 6)

\* item.product.category || 'Uncategorized'; categories are numbered, and
\* 'Uncategorized' has a number no product carries
Uncategorized == TopCategories + 2
categoryName(category) == IF category = NULL THEN Uncategorized ELSE category

\* the rows of S in the order the store returns them: by id, upwards or
\* downwards
Returned(S, up) ==
  [n \in 1..Cardinality(S) |->
     CHOOSE x \in S :
       Cardinality({y \in S : IF up THEN y.id < x.id ELSE y.id > x.id}) = n - 1]

\* the keys of an object filled in the order keys: each key once, in the
\* order of its first occurrence
FirstSeen(keys) ==
  LET first == {k \in DOMAIN keys : \A m \in 1..(k - 1) : keys[m] # keys[k]}
  IN [n \in 1..Cardinality(first) |->
        keys[CHOOSE k \in first : Cardinality({m \in first : m < k}) = n - 1]]

\* (variant: the list left in the order of its keys)
SortAsFilled(seq, val) == seq

\* seq.sort((a, b) => b.val - a.val): descending by val, equal elements in
\* the order they had (the sort is stable)
SortDescending(seq, val) ==
  LET before(k) == {m \in DOMAIN seq :
                      val[m] > val[k] \/ (val[m] = val[k] /\ m < k)}
  IN [n \in DOMAIN seq |->
        seq[CHOOSE k \in DOMAIN seq : Cardinality(before(k)) = n - 1]]

\* seq.slice(0, n)
slice(seq, n) == SubSeq(seq, 1, Min(n, Len(seq)))

\* the order_items the policies let the user read: those of the user's orders
visibleItems(user) ==
  {it \in order_items : \E o \in OwnedBy(orders, user) : o.id = it.order_id}

\* the sum of amount[k] over the rows k with key[k] = wanted
SumWhere(key, wanted, amount) ==
  SumSeq([k \in DOMAIN key |-> IF key[k] = wanted THEN amount[k] ELSE 0])

\* productSales, then Object.values(productSales).sort(...).slice(0, 10)
topProducts(rows) ==
  LET key == [k \in DOMAIN rows |-> rows[k].product_id]
      ids == FirstSeen(key)
      productSales ==
        [n \in DOMAIN ids |->
           [product_id |-> ids[n],
            category |-> categoryName(products[ids[n]].category),
            quantity_sold |->
              SumWhere(key, ids[n], [k \in DOMAIN rows |-> rows[k].quantity]),
            revenue |->
              SumWhere(key, ids[n],
                       [k \in DOMAIN rows |-> rows[k].quantity * rows[k].unit_price])]]
  IN slice(SortDescending(productSales,
                          [n \in DOMAIN ids |-> productSales[n].quantity_sold]),
           TopProducts)

\* categoryTotals, then Object.entries(categoryTotals).map(...).sort(...)
\* .slice(0, 6); the amounts are in hundredths, value is Math.round of one
categoryData(rows) ==
  LET key == [k \in DOMAIN rows |-> categoryName(products[rows[k].product_id].category)]
      names == FirstSeen(key)
      entries ==
        [n \in DOMAIN names |->
           [category |-> names[n],
            value |-> round(SumWhere(key, names[n],
                         [k \in DOMAIN rows |-> rows[k].quantity * rows[k].unit_price]))]]
  IN slice(SortDescending(entries, [n \in DOMAIN names |-> entries[n].value]),
           TopCategories)

fetchBestSellingProducts(s) ==
  /\ sess[s].pc = "idle"
  /\ \E up \in BOOLEAN, failed \in BOOLEAN :
       Step(s, IF failed
                 THEN Done([IdleSess EXCEPT !.kind = "best_selling", !.user = Owner,
                                            !.view = <<>>], "error")
                 ELSE Done([IdleSess EXCEPT !.kind = "best_selling", !.user = Owner,
                                            !.view = topProducts(
                                               Returned(visibleItems(Owner), up))],
                           "success"))
  /\ UNCHANGED <<stock, products, warehouses, orders, order_items, receipts,
                 receipt_items, transfers, transfer_items, nextId>>

fetchCategorySales(s) ==
  /\ sess[s].pc = "idle"
  /\ \E up \in BOOLEAN, failed \in BOOLEAN :
       Step(s, IF failed
                 THEN Done([IdleSess EXCEPT !.kind = "category_sales", !.user = Owner,
                                            !.view = <<>>], "error")
                 ELSE Done([IdleSess EXCEPT !.kind = "category_sales", !.user = Owner,
                                            !.view = categoryData(
                                               Returned(visibleItems(Owner), up))],
                           "success"))
  /\ UNCHANGED <<stock, products, warehouses, orders, order_items, receipts,
                 receipt_items, transfers, transfer_items, nextId>>

\* The catalogue and the orders on file when the page is loaded: one product
\* more than the best-selling list holds, in one category more than the
\* category list holds (the last product has no category); a sales order
\* with one line per product, one product selling more and one less than
\* the others, and a purchase order with one line.
SalesProducts == 1..(TopProducts + 1)

SalesCategory(p) ==
  IF p <= TopCategories + 1 THEN p
  ELSE IF p = TopProducts + 1 THEN NULL
  ELSE p - (TopCategories + 1)

SalesOrder(n, t) ==
  [id |-> n, order_number |-> n, order_type |-> t, status |-> "completed",
   created_by |-> Owner]

SalesItem(n, o, p, q, price) ==
  [id |-> n, order_id |-> o, product_id |-> p, quantity |-> q, unit_price |-> price]

InitSales ==
  /\ stock = {}
  /\ products = [p \in SalesProducts |->
                   [sku |-> p, reorder_level |-> 1, category |-> SalesCategory(p)]]
  /\ warehouses = InitWarehouses
  /\ orders = {SalesOrder(1, "sales"), SalesOrder(2, "purchase")}
  /\ \E more \in {1, TopCategories + 1, TopProducts + 1},
        less \in {2, TopProducts, TopProducts + 1}, price \in Prices,
        bought \in {1, TopProducts + 1}, q \in 1..MaxLineQty :
       order_items =
         {SalesItem(p, 1, p,
                    IF p = more THEN MaxLineQty + 1
                    ELSE IF p = less THEN 1 ELSE MaxLineQty,
                    IF p = more THEN price ELSE 10000) : p \in SalesProducts}
         \cup {SalesItem(TopProducts + 2, 2, bought, q, 10000)}
  /\ receipts = {}
  /\ receipt_items = {}
  /\ transfers = {}
  /\ transfer_items = {}
  /\ nextId = TopProducts + 3
  /\ sess = [s \in Sessions |-> IdleSess]

NextSales == \E s \in Sessions : fetchBestSellingProducts(s) \/ fetchCategorySales(s)

SpecSales == InitSales /\ [][NextSales]_vars

\* --------------------------------------------------------------- C23
\* what the user's line items say of a product and of a category
ItemsOfProduct(user, p) == {it \in visibleItems(user) : it.product_id = p}
ItemsOfCategory(user, c) ==
  {it \in visibleItems(user) : categoryName(products[it.product_id].category) = c}
ProductsSold(user) == {it.product_id : it \in visibleItems(user)}
CategoriesSold(user) ==
  {categoryName(products[it.product_id].category) : it \in visibleItems(user)}

\* the list v is sorted by the field values val, largest first
Descending(val) == \A a, b \in DOMAIN val : a < b => val[a] >= val[b]

\* the best-selling list: at most TopProducts entries, one per product, each
\* with the sum of the product's line quantities, largest first, and no
\* product left out that has more than a listed one
BestSellingRight(me) ==
  LET v == me.view
      listed == {v[a].product_id : a \in DOMAIN v}
  IN /\ Len(v) = Min(TopProducts, Cardinality(ProductsSold(me.user)))
     /\ \A a, b \in DOMAIN v : a # b => v[a].product_id # v[b].product_id
     /\ \A a \in DOMAIN v :
          v[a].quantity_sold = SumQuantity(ItemsOfProduct(me.user, v[a].product_id))
     /\ Descending([a \in DOMAIN v |-> v[a].quantity_sold])
     /\ \A p \in ProductsSold(me.user) \ listed, a \in DOMAIN v :
          SumQuantity(ItemsOfProduct(me.user, p)) <= v[a].quantity_sold

\* C23 as claimed: the best-selling list is right, and the category list has
\* at most TopCategories entries, each the summed quantity * unit_price of
\* its category, largest first, with the largest sums in it.
C23_TopListsAreSums ==
  \A s \in Sessions :
    LET me == sess[s]
        v == me.view
        listed == {v[a].category : a \in DOMAIN v}
    IN /\ (me.kind = "best_selling" /\ Succeeded(me)) => BestSellingRight(me)
       /\ (me.kind = "category_sales" /\ Succeeded(me)) =>
            /\ Len(v) = Min(TopCategories, Cardinality(CategoriesSold(me.user)))
            /\ \A a \in DOMAIN v :
                 v[a].value * 100 = revenue(ItemsOfCategory(me.user, v[a].category))
            /\ Descending([a \in DOMAIN v |-> v[a].value])
            /\ \A c \in CategoriesSold(me.user) \ listed, a \in DOMAIN v :
                 revenue(ItemsOfCategory(me.user, c))
                   <= revenue(ItemsOfCategory(me.user, v[a].category))

\* C23 as amended: the same, the value of a category being its sum rounded
\* to a whole number, and the list holding the largest rounded values.
C23_TopListsAreRoundedSums ==
  \A s \in Sessions :
    LET me == sess[s]
        v == me.view
        listed == {v[a].category : a \in DOMAIN v}
    IN /\ (me.kind = "best_selling" /\ Succeeded(me)) => BestSellingRight(me)
       /\ (me.kind = "category_sales" /\ Succeeded(me)) =>
            /\ Len(v) = Min(TopCategories, Cardinality(CategoriesSold(me.user)))
            /\ \A a, b \in DOMAIN v : a # b => v[a].category # v[b].category
            /\ \A a \in DOMAIN v :
                 v[a].value = round(revenue(ItemsOfCategory(me.user, v[a].category)))
            /\ Descending([a \in DOMAIN v |-> v[a].value])
            /\ \A c \in CategoriesSold(me.user) \ listed, a \in DOMAIN v :
                 round(revenue(ItemsOfCategory(me.user, c))) <= v[a].value

\* both lists loaded and cut to their length, a product with two line items
\* listed, and a category whose sum is not a whole number
C23_Witness ==
  \E s, t \in Sessions :
    /\ sess[s].kind = "best_selling" /\ Succeeded(sess[s])
    /\ Len(sess[s].view) = TopProducts
    /\ Cardinality(ProductsSold(Owner)) > TopProducts
    /\ \E a \in DOMAIN sess[s].view :
         Cardinality(ItemsOfProduct(Owner, sess[s].view[a].product_id)) = 2
    /\ sess[t].kind = "category_sales" /\ Succeeded(sess[t])
    /\ Len(sess[t].view) = TopCategories
    /\ Cardinality(CategoriesSold(Owner)) > TopCategories
    /\ \E c \in CategoriesSold(Owner) : revenue(ItemsOfCategory(Owner, c)) % 100 # 0

\* ------------------------------------------- Analytics.fetchStockMetrics
\* (variant: the quantity of one of the product's stock rows)
totalQtyOfOneRow(st, p) ==
  IF \E r \in st : r.product_id = p
    THEN (CHOOSE r \in st : r.product_id = p).quantity
    ELSE 0

\* product.stock?.reduce((sum, s) => sum + Number(s.quantity), 0) || 0
totalQty(st, p) == SumQuantity({r \in st : r.product_id = p})

\* Number(product.cost_price || 0), in hundredths
costPrice(product) == IF product.cost_price = NULL THEN 0 ELSE product.cost_price

\* total_stock_value += totalQty * cost_price over the products S
RECURSIVE stockValue(_, _, _)
stockValue(prods, st, S) ==
  IF S = {} THEN 0
  ELSE LET p == CHOOSE x \in S : TRUE
       IN totalQty(st, p) * costPrice(prods[p]) + stockValue(prods, st, S \ {p})

\* the figures of setStockMetrics
stockMetrics(prods, st) ==
  [total_products |-> Cardinality(DOMAIN prods),
   total_stock_value |-> round(stockValue(prods, st, DOMAIN prods)),
   low_stock_items |->
     Cardinality({p \in DOMAIN prods :
                    totalQty(st, p) # 0 /\ totalQty(st, p) <= prods[p].reorder_level}),
   out_of_stock |-> Cardinality({p \in DOMAIN prods : totalQty(st, p) = 0})]

\* the select fails: the catch block logs, the figures stay as they were
fetchStockMetrics(s) ==
  /\ sess[s].pc = "idle"
  /\ \E failed \in BOOLEAN :
       Step(s, IF failed
                 THEN Done([IdleSess EXCEPT !.kind = "stock_metrics", !.user = Owner],
                           "error")
                 ELSE Done([IdleSess EXCEPT !.kind = "stock_metrics", !.user = Owner,
                                            !.view = stockMetrics(products, stock)],
                           "success"))
  /\ UNCHANGED <<stock, products, warehouses, orders, order_items, receipts,
                 receipt_items, transfers, transfer_items, nextId>>

\* The catalogue and the stock when the pages are loaded: product 1 with one
\* or two stock rows, product 2 with one, product 3 with none; quantities
\* from 0 on; the reorder level and the cost price of product 1 vary (the
\* cost price may be absent).
CostPrices == {NULL, 50, 10000}

InitMetrics ==
  /\ \E q1 \in 0..MaxInitQty, q2 \in 0..MaxInitQty,
        more \in {{}} \cup {{InitRow(2, 1, NULL, q, 0)} : q \in 0..MaxInitQty} :
       stock = {InitRow(1, 1, 1, q1, 0), InitRow(3, 2, NULL, q2, 0)} \cup more
  /\ \E level \in 0..(MaxInitQty + 1), cost \in CostPrices :
       products = [p \in 1..3 |->
                     [sku |-> p,
                      reorder_level |-> IF p = 1 THEN level ELSE 1,
                      cost_price |-> IF p = 1 THEN cost ELSE 10000]]
  /\ warehouses = InitWarehouses
  /\ orders = {}
  /\ order_items = {}
  /\ receipts = {}
  /\ receipt_items = {}
  /\ transfers = {}
  /\ transfer_items = {}
  /\ nextId = 4
  /\ sess = [s \in Sessions |-> IdleSess]

NextMetrics == \E s \in Sessions : fetchStockMetrics(s) \/ fetchStats(s)

SpecMetrics == InitMetrics /\ [][NextMetrics]_vars

\* --------------------------------------------------------------- C24
\* the quantity on hand of product p, and the worth of the stock rows S at
\* the cost prices of their products (in hundredths, no cost price: 0)
OnHand(p) == SumQuantity({r \in stock : r.product_id = p})

RECURSIVE Worth(_)
Worth(S) ==
  IF S = {} THEN 0
  ELSE LET r == CHOOSE x \in S : TRUE
       IN r.quantity * costPrice(products[r.product_id]) + Worth(S \ {r})

CoversReserved(st) ==
  \A r \in st : r.quantity >= r.reserved_quantity /\ r.reserved_quantity >= 0

\* C25: a step of a Sell submission taken when every stock row holds at
\* least its reserved quantity leaves every stock row that way.
C25_ReservedNeverSold ==
  [][\A s \in Sessions :
       (IsSell(sess[s]) /\ Acts(s) /\ CoversReserved(stock)) =>
         CoversReserved(stock')]_vars

\* --------------------------------------------------------------- C26
\* C26: no stock row ever has a negative quantity: a Sell write stores the
\* quantity it read less an amount between 1 and that quantity (the smaller
\* of the remaining need and what the handler takes as available), a
\* Receive write stores the quantity it read plus the line quantity, or
\* inserts a row with the line quantity.
C26_QuantityNeverNegative ==
  /\ [](\A r \in stock : r.quantity >= 0)
  /\ [][\A s \in Sessions :
          LET me == sess[s]
          IN /\ (me.pc = "sell_write" /\ Acts(s)) =>
                  LET row == me.stockRecords[me.j]
                      taken == Min(me.remainingQty,
                                   IF row.quantity - row.reserved_quantity # 0
                                     THEN row.quantity - row.reserved_quantity
                                     ELSE row.quantity)
                  IN /\ 1 <= taken /\ taken <= row.quantity
                     /\ \A r \in stock' :
                          r.id = row.id => r.quantity = row.quantity - taken
             /\ (me.pc = "receipt_write" /\ Acts(s)) =>
                  LET item == me.items[me.i]
                  IN \A r \in stock' :
                       /\ r.id = me.existingStock.id =>
                            r.quantity = me.existingStock.quantity + item.quantity
                       /\ r \notin stock /\ r.id # me.existingStock.id =>
                            r.quantity = item.quantity]_vars

\* a Sell and a Receive that wrote stock while the other was running, and a
\* row sold down to nothing
C26_Witness ==
  \E s, t \in Sessions :
    /\ IsSell(sess[s]) /\ Succeeded(sess[s]) /\ sess[s].writes >= 1 /\ sess[s].dirty
    /\ sess[t].kind = "receipt" /\ Succeeded(sess[t]) /\ sess[t].dirty
    /\ \E r \in stock : r.quantity = 0

\* ---------------------------------------------------------------- C27
\* the order a submission inserted, and the line items stored for it
PersistedOrder(me) == {o \in orders : o.id = me.rowId}
PersistedItems(me) == {it \in order_items : it.order_id = me.rowId}

\* C27: order and stock stay consistent.  Once a Sell has ended, its sales
\* order and line items are persisted only if the deduction of every line was
\* applied (the Sell ended with success, having written stock for each
\* line); a Sell rejected for insufficient stock, no stock or a store error
\* leaves no order record and no order items.
C27_OrderMatchesStock ==
  \A s \in Sessions :
    LET me == sess[s]
    IN (IsSell(me) /\ me.pc = "done") =>
         IF me.outcome = "success"
           THEN me.writes >= Len(me.items)
           ELSE PersistedOrder(me) = {} /\ PersistedItems(me) = {}

\* ---------------------------------------------------------------- C28
\* C28: a product deletion that does not remove the product (blocked by a
\* reference, or failing at the store, also when another submission inserts a
\* referencing line item between the check and the delete) leaves the stock
\* rows of that product in place: the step that ends it without success
\* changes no stock, and the handler has by then taken no quantity of the
\* product out of the stock table.
C28_FailedDeleteKeepsStock ==
  /\ [](\A s \in Sessions :
          (sess[s].kind = "product_delete" /\ sess[s].pc = "done"
             /\ sess[s].outcome # "success") =>
            /\ sess[s].product \in DOMAIN products
            /\ sess[s].delta = 0)
  /\ [][\A s \in Sessions :
          (sess'[s].kind = "product_delete" /\ Acts(s)
             /\ sess'[s].pc = "done" /\ sess'[s].outcome # "success") =>
            stock' = stock]_vars

\* ---------------------------------------------------------------- C29
\* the user's line items that belong to a sales order
SoldItems(user) ==
  {it \in visibleItems(user) :
     \E o \in orders : o.id = it.order_id /\ o.order_type = "sales"}

\* C29: only line items of sales orders count in the analytics.  Every entry
\* of the best-selling list carries the quantity and the revenue of the
\* product's line items in sales orders, every entry of the category list
\* the rounded revenue of the category's line items in sales orders, and a
\* product or category bought but never sold is in neither list.
C29_OnlySalesOrdersCount ==
  \A s \in Sessions :
    LET me == sess[s]
        v == me.view
    IN /\ (me.kind = "best_selling" /\ Succeeded(me)) =>
            \A a \in DOMAIN v :
              LET sold == {it \in SoldItems(me.user) :
                             it.product_id = v[a].product_id}
              IN /\ sold # {}
                 /\ v[a].quantity_sold = SumQuantity(sold)
                 /\ v[a].revenue = revenue(sold)
       /\ (me.kind = "category_sales" /\ Succeeded(me)) =>
            \A a \in DOMAIN v :
              LET sold == {it \in SoldItems(me.user) :
                             categoryName(products[it.product_id].category)
                               = v[a].category}
              IN /\ sold # {}
                 /\ v[a].value = round(revenue(sold))

\* ---------------------------------------------------------------- C30
\* C30: the entries of a loaded sales trend are in chronological order of
\* their month, also when the months shown are of two years.
C30_TrendIsChronological ==
  \A s \in Sessions :
    LET me == sess[s]
    IN (me.kind = "trend" /\ Succeeded(me)) =>
         \A a, b \in DOMAIN me.view : a < b => me.view[a].month < me.view[b].month

Next ==
  \E s \in Sessions :
    \/ getUser(s)
    \/ OrderSubmit(s)
    \/ OrderItemsInsert(s)
    \/ SellRead(s)
    \/ SellWrite(s)
    \/ ReceiptSubmit(s)
    \/ ReceiptItemInsert(s)
    \/ ReceiptRead(s)
    \/ ReceiptWrite(s)
    \/ TransferSubmit(s)
    \/ TransferItemsInsert(s)
    \/ ProductSubmit(s)
    \/ ProductStockInsert(s)
    \/ DeleteCheck(s)
    \/ DeleteStock(s)
    \/ DeleteProduct(s)
    \/ markAsCompleted(s)
    \/ WarehouseSubmit(s)
    \/ handleUpdate(s)
    \/ fetchStats(s)

Spec == Init /\ [][Next]_vars

====
